---- MODULE Spec2Model ----
(***************************************************************************)
(* Model of the portfolio Worker (worker/src/index.ts): the request router *)
(* and its handlers for POST /contact, /go/:key, /resume.pdf, /badge and   *)
(* the static fallthrough, together with the KV rate-limit counter and the *)
(* three D1 tables the handlers append to.                                 *)
(*                                                                         *)
(* Every `await` of a handler is one step of the model, so that requests   *)
(* in flight can interleave exactly where the Worker can.  The outcome of  *)
(* each external call (KV, D1, Turnstile, OAuth token, Gmail send, static  *)
(* assets) is chosen by the environment.                                   *)
(***************************************************************************)
EXTENDS Integers, Sequences, FiniteSets, TLC

(* ------------------------------ bounds -------------------------------- *)

\* Requests the environment issues in the all-routes workload (Spec).
MaxRequests == 2
\* Contact requests issued in the rate-limit workloads (SpecWindow, SpecRace).
MaxContact == 7
\* Clock advances in the rate-limit workloads.
MaxTicks == 2
\* Requests in flight at once in SpecRace, and its clock advances.
MaxInflight == 2
MaxRaceTicks == 1

(* ------------------------- program constants -------------------------- *)

\* index.ts:99   if (contentLength > 65_536)
MaxContentLength == 65536
\* index.ts:239  const windowMs = 10 * 60 * 1000
windowMs == 10 * 60 * 1000
\* index.ts:240  const limit = 5
limit == 5
\* index.ts:125  length caps of name, email and message
MaxName == 200
MaxEmail == 320
MaxMessage == 5000
\* index.ts:130  /^[^@\s]{1,64}@[^\s@]{1,255}$/
MaxLocal == 64
MaxDomain == 255

(* ------------------------------ strings -------------------------------- *)
(* A string is kept run-length encoded: a sequence of <<character, n>>,    *)
(* n >= 1, so that the 5001-character message of the length cap is one     *)
(* pair.  Undefined is the value of a property the JSON body lacks.        *)

Undefined == [t |-> "undefined"]
Str(runs) == [t |-> "string", runs |-> runs]
Rep(c, n) == Str(<< <<c, n>> >>)

RECURSIVE RunsLen(_)
RunsLen(runs) ==
    IF runs = << >> THEN 0 ELSE Head(runs)[2] + RunsLen(Tail(runs))

\* (x + "").length
StrLen(v) == IF v.t = "undefined" THEN 9 ELSE RunsLen(v.runs)

RECURSIVE CountIn(_, _)
CountIn(runs, cs) ==
    IF runs = << >> THEN 0
    ELSE (IF Head(runs)[1] \in cs THEN Head(runs)[2] ELSE 0) + CountIn(Tail(runs), cs)

\* Number of characters in front of the first "@" (all of them when there is none).
RECURSIVE BeforeAt(_)
BeforeAt(runs) ==
    IF runs = << >> THEN 0
    ELSE IF Head(runs)[1] = "@" THEN 0
    ELSE Head(runs)[2] + BeforeAt(Tail(runs))

Whitespace == {" ", "\t", "\n"}

\* !v of JavaScript for the values a body property takes here.
Falsy(v) == v.t = "undefined" \/ RunsLen(v.runs) = 0

\* /^[^@\s]{1,64}@[^\s@]{1,255}$/.test(email)
EmailOk(email) ==
    LET runs == email.runs
        local == BeforeAt(runs)
        domain == RunsLen(runs) - local - 1
    IN  /\ CountIn(runs, {"@"}) = 1
        /\ CountIn(runs, Whitespace) = 0
        /\ local >= 1 /\ local <= MaxLocal
        /\ domain >= 1 /\ domain <= MaxDomain


(* ------------------------------ requests ------------------------------- *)

IPs == {"203.0.113.1", "203.0.113.2"}
UserAgent == "ua"

\* Value of the Content-Length header: absent, a number, or text that is no number.
NumHeader(n) == [t |-> "num", n |-> n]
NaNHeader == [t |-> "nan"]
ContentLengths ==
    {Undefined, NumHeader(MaxContentLength), NumHeader(MaxContentLength + 1), NaNHeader}

\* Number(request.headers.get("Content-Length") || "0") > 65_536
Oversized(h) == h.t = "num" /\ h.n > MaxContentLength

\* Bodies of a POST /contact: text that is no JSON, the JSON null, or an object.
InvalidJson == [t |-> "invalid"]
JsonNull == [t |-> "null"]
Obj(n, e, m, k) ==
    [t |-> "object", name |-> n, email |-> e, message |-> m, turnstileToken |-> k]

GoodName == Str(<< <<"A", 1>>, <<"l", 1>> >>)
GoodEmail == Str(<< <<"a", 1>>, <<"@", 1>>, <<"b", 1>> >>)
GoodMessage == Str(<< <<"h", 1>>, <<"i", 1>> >>)
GoodToken == Str(<< <<"t", 1>> >>)
GoodBody == Obj(GoodName, GoodEmail, GoodMessage, GoodToken)

Names == {GoodName, Undefined, Str(<< >>), Rep("n", MaxName), Rep("n", MaxName + 1)}
Emails ==
    { GoodEmail, Undefined,
      Str(<< <<"a", 1>>, <<" ", 1>>, <<"@", 1>>, <<"b", 1>> >>),
      Str(<< <<"a", 3>> >>),
      Str(<< <<"a", MaxLocal>>, <<"@", 1>>, <<"b", MaxDomain>> >>),
      Str(<< <<"a", MaxLocal + 1>>, <<"@", 1>>, <<"b", MaxDomain>> >>) }
Messages == {GoodMessage, Undefined, Rep("m", MaxMessage), Rep("m", MaxMessage + 1)}
Tokens == {GoodToken, Undefined}

\* Number of properties of an object body that differ from GoodBody.
Deviations(b) ==
    (IF b.name = GoodName THEN 0 ELSE 1) + (IF b.email = GoodEmail THEN 0 ELSE 1)
    + (IF b.message = GoodMessage THEN 0 ELSE 1)
    + (IF b.turnstileToken = GoodToken THEN 0 ELSE 1)

\* Every body with at most two deviating properties, so that requests with two
\* defects at once are among the inputs.
Bodies ==
    {InvalidJson, JsonNull}
    \cup {b \in {Obj(n, e, m, k) : n \in Names, e \in Emails, m \in Messages, k \in Tokens} :
            Deviations(b) <= 2}

\* const { name, email, message, turnstileToken } = body || {}
Field(body, f) == IF body.t = "object" THEN body[f] ELSE Undefined

(* ------------------------------ responses ------------------------------ *)

NoResp == [kind |-> "none"]
Rejected == [kind |-> "rejected"]
Response(status, body) == [kind |-> "response", status |-> status, body |-> body]
\* json(data, status)
Json(data, status) == Response(status, data)
JsonError(msg, status) == Json([t |-> "json", error |-> msg], status)
JsonOk(delivered) ==
    Json([t |-> "json", ok |-> TRUE, delivered |-> delivered,
          message |-> "Thanks! Your message has been received."], 200)
InternalError == Response(500, [t |-> "text", text |-> "Internal Error"])

(* --------------------------- rate-limit record -------------------------- *)

NoRec == [present |-> FALSE, count |-> 0, reset |-> 0, expiresAt |-> 0]

\* env.KV.get(key) at time t: null once the key is past its expiry.
KVGet(stored, t) == IF stored.present /\ t < stored.expiresAt THEN stored ELSE NoRec

\* NextRec without the reset of line 245: an elapsed window keeps counting.
NextRecNoReset(got, now) ==
    LET rec == IF got.present THEN [count |-> got.count, reset |-> got.reset]
               ELSE [count |-> 0, reset |-> now + windowMs]
    IN  [rec EXCEPT !.count = @ + 1]

\* NextRec with a sliding window: every request moves the reset timestamp.
NextRecSliding(got, now) ==
    LET rec == IF got.present THEN [count |-> got.count, reset |-> got.reset]
               ELSE [count |-> 0, reset |-> now + windowMs]
        cur == IF now > rec.reset THEN [count |-> 0, reset |-> now + windowMs] ELSE rec
    IN  [count |-> cur.count + 1, reset |-> now + windowMs]

\* index.ts:243-246: the record the request works on after the read.
NextRec(got, now) ==
    LET rec == IF got.present THEN [count |-> got.count, reset |-> got.reset]
               ELSE [count |-> 0, reset |-> now + windowMs]
        cur == IF now > rec.reset THEN [count |-> 0, reset |-> now + windowMs] ELSE rec
    IN  [cur EXCEPT !.count = @ + 1]

\* Math.ceil((rec.reset - now) / 1000)
ExpirationTtl(rec, now) == ((rec.reset - now) + 999) \div 1000

\* WithinLimit with the ceiling one too high.
WithinLimitLoose(rec) == rec.count <= limit + 1

\* WithinLimit with the comparison off by one.
WithinLimitStrict(rec) == rec.count < limit

\* return rec.count <= limit
WithinLimit(rec) == rec.count <= limit


(* -------------------------------- state -------------------------------- *)

VARIABLES
    clock,        \* Date.now(), in milliseconds
    kv,           \* KV: the stored rl:contact:<ip> record of every IP
    submissions,  \* D1 table submissions, in insertion order
    clicks,       \* D1 table clicks, in insertion order
    downloads,    \* D1 table downloads: its number of rows
    sent,         \* notification emails the Gmail send call accepted
    reqs,         \* the requests: slot -> position and locals of its handler
    hist,         \* per IP, a record of the rate-limit checks made so far
    okCount,      \* responses with ok: true issued so far
    issued,       \* requests issued so far
    ticks         \* clock advances so far

vars == <<clock, kv, submissions, clicks, downloads, sent, reqs, hist, okCount, issued, ticks>>

Slots == 1..MaxInflight

\* Snapshot of the shared state, taken when a request enters fetch.
Pre ==
    [submissions |-> Len(submissions), clicks |-> Len(clicks), downloads |-> downloads,
     sent |-> sent, kv |-> kv]

Idle ==
    [pc |-> "idle", route |-> "none", method |-> "GET", path |-> << >>, ip |-> "",
     ua |-> "", cl |-> Undefined, body |-> JsonNull, now |-> 0, readAt |-> 0,
     seen |-> NoRec, got |-> NoRec, raced |-> FALSE,
     rec |-> [count |-> 0, reset |-> 0], ref |-> "", target |-> << >>,
     asset |-> [status |-> 0, body |-> "", ct |-> "", cache |-> << >>],
     calls |-> << >>, pre |-> [submissions |-> 0, clicks |-> 0, downloads |-> 0,
                               sent |-> 0, kv |-> [i \in IPs |-> NoRec]],
     resp |-> NoResp]

NoChecks ==
    [n |-> 0, first |-> 0, fault |-> FALSE, stale |-> FALSE, win |-> 0, admitted |-> 0]

\* One more rate-limit check of an IP, by request r: failed when a KV call of
\* it threw, stale when another write-back of the IP's record landed between
\* its read and its own write-back, admitted when it passed the check.  win is
\* the reset timestamp of the first record written back, and admissions are
\* counted for that window: the requests that wrote back a record with this
\* reset timestamp, entered no more than windowMs before it and read the
\* counter before it.
Checked(h, r, failed, stale, admitted) ==
    LET wrote == ~failed
        win == IF h.win = 0 /\ wrote THEN r.rec.reset ELSE h.win
        inside == /\ wrote /\ r.rec.reset = win
                  /\ r.now + windowMs >= win /\ r.readAt < win
    IN  [n |-> h.n + 1, first |-> IF h.n = 0 THEN r.now ELSE h.first,
         fault |-> h.fault \/ failed, stale |-> h.stale \/ stale, win |-> win,
         admitted |-> IF admitted /\ inside THEN h.admitted + 1 ELSE h.admitted]

\* The deployed Worker before its first request.
Init ==
    /\ clock = 0
    /\ kv = [i \in IPs |-> NoRec]
    /\ submissions = << >>
    /\ clicks = << >>
    /\ downloads = 0
    /\ sent = 0
    /\ reqs = [s \in Slots |-> Idle]
    /\ hist = [i \in IPs |-> NoChecks]
    /\ okCount = 0
    /\ issued = 0
    /\ ticks = 0

\* The counter of an IP after `limit` contact requests entered at time 0 that
\* were all answered 400: the state SpecWindow reaches by five such requests.
SpentIP == "203.0.113.1"
SpentRec == [present |-> TRUE, count |-> limit, reset |-> windowMs, expiresAt |-> windowMs]
SpentChecks ==
    [n |-> limit, first |-> 0, fault |-> FALSE, stale |-> FALSE, win |-> windowMs,
     admitted |-> limit]

\* As Init, or with the quota of SpentIP used up.
InitRoutes ==
    /\ clock = 0
    /\ \/ kv = [i \in IPs |-> NoRec] /\ hist = [i \in IPs |-> NoChecks]
       \/ /\ kv = [i \in IPs |-> IF i = SpentIP THEN SpentRec ELSE NoRec]
          /\ hist = [i \in IPs |-> IF i = SpentIP THEN SpentChecks ELSE NoChecks]
    /\ submissions = << >>
    /\ clicks = << >>
    /\ downloads = 0
    /\ sent = 0
    /\ reqs = [s \in Slots |-> Idle]
    /\ okCount = 0
    /\ issued = 0
    /\ ticks = 0

Free(s) == reqs[s].pc = "idle"
InFlight == {s \in Slots : ~Free(s)}

\* A request enters in the lowest free slot, while fewer than cap requests are
\* in flight or await delivery, and fewer than budget were issued.
CanEnter(cap, budget) == issued < budget /\ Cardinality(InFlight) < cap
EntrySlot(s) == Free(s) /\ \A r \in Slots : r < s => ~Free(r)

Call(name, out) == [call |-> name, out |-> out]
Outcomes == {"ok", "throw"}

(* -------------------------------- router ------------------------------- *)

Methods == {"GET", "POST"}
\* The pathname, split at "/": "/go/abc" is <<"go", "abc">>, "/go/" is <<"go", "">>.
Paths ==
    { <<"contact">>, <<"go", "abc">>, <<"go", "nope">>, <<"go", "">>,
      <<"resume.pdf">>, <<"badge">>, <<"index.html">> }

\* index.ts:22-41: the handler the method and pathname select.
Route(method, path) ==
    IF method = "POST" /\ path = <<"contact">> THEN "contact"
    ELSE IF Len(path) >= 2 /\ path[1] = "go" THEN "shortlink"
    ELSE IF path = <<"resume.pdf">> THEN "resume"
    ELSE IF path = <<"badge">> THEN "badge"
    ELSE "static"

\* pathname.replace("/go/", "")
ShortKey(path) == path[2]

\* index.ts:20-45: only the static fallthrough awaits inside the try block; the
\* four handlers are returned un-awaited, so the catch clause is left before
\* their promise settles.
AwaitedInTry(route) == route = "static"

\* What fetch yields when the selected handler fails.
Settle(route) == IF AwaitedInTry(route) THEN InternalError ELSE Rejected

Enter(s, route, method, path, ip, cl, body) ==
    [Idle EXCEPT !.pc = "entered", !.route = route, !.method = method, !.path = path,
                 !.ip = ip, !.ua = UserAgent, !.cl = cl, !.body = body, !.pre = Pre]

\* The handler of slot s returns resp.
Finish(r, resp) == [r EXCEPT !.pc = "done", !.resp = resp]
\* The handler of slot s throws: fetch settles as the router dictates.
Throw(r) == [r EXCEPT !.pc = "done", !.resp = Settle(r.route)]
Logged(r, name, out) == [r EXCEPT !.calls = Append(@, Call(name, out))]

IsOk(resp) ==
    /\ resp.kind = "response" /\ resp.status = 200
    /\ resp.body.t = "json" /\ "ok" \in DOMAIN resp.body /\ resp.body.ok

(* ------------------------------ /contact ------------------------------- *)

\* BodyError without the length caps of line 125.
BodyErrorNoCaps(body) ==
    LET name == Field(body, "name")
        email == Field(body, "email")
        message == Field(body, "message")
        turnstileToken == Field(body, "turnstileToken")
    IN  IF body.t = "invalid" THEN "Invalid JSON body"
        ELSE IF Falsy(name) \/ Falsy(email) \/ Falsy(message) \/ Falsy(turnstileToken)
             THEN "Missing required fields"
        ELSE IF ~EmailOk(email) THEN "Invalid email"
        ELSE ""

\* BodyError with the email check moved in front of the length caps.
BodyErrorEmailFirst(body) ==
    LET name == Field(body, "name")
        email == Field(body, "email")
        message == Field(body, "message")
        turnstileToken == Field(body, "turnstileToken")
    IN  IF body.t = "invalid" THEN "Invalid JSON body"
        ELSE IF Falsy(name) \/ Falsy(email) \/ Falsy(message) \/ Falsy(turnstileToken)
             THEN "Missing required fields"
        ELSE IF ~EmailOk(email) THEN "Invalid email"
        ELSE IF StrLen(name) > MaxName \/ StrLen(email) > MaxEmail
                \/ StrLen(message) > MaxMessage
             THEN "Input too long"
        ELSE ""

\* index.ts:108-131: the first defect of the body, "" when it has none.
BodyError(body) ==
    LET name == Field(body, "name")
        email == Field(body, "email")
        message == Field(body, "message")
        turnstileToken == Field(body, "turnstileToken")
    IN  IF body.t = "invalid" THEN "Invalid JSON body"
        ELSE IF Falsy(name) \/ Falsy(email) \/ Falsy(message) \/ Falsy(turnstileToken)
             THEN "Missing required fields"
        ELSE IF StrLen(name) > MaxName \/ StrLen(email) > MaxEmail
                \/ StrLen(message) > MaxMessage
             THEN "Input too long"
        ELSE IF ~EmailOk(email) THEN "Invalid email"
        ELSE ""

\* SubmissionRow with name and email bound in each other's place.
SubmissionRowSwapped(r) ==
    [name |-> Field(r.body, "email"), email |-> Field(r.body, "name"),
     message |-> Field(r.body, "message"), ip |-> r.ip, user_agent |-> r.ua]

\* index.ts:150  .bind(name, email, message, ip, ua)
SubmissionRow(r) ==
    [name |-> Field(r.body, "name"), email |-> Field(r.body, "email"),
     message |-> Field(r.body, "message"), ip |-> r.ip, user_agent |-> r.ua]

\* index.ts:93-106: entry, size cap, and the call of rateLimit up to its KV read.
FetchContact(cap, budget, ips, cls, bodies) ==
    /\ CanEnter(cap, budget)
    /\ \E s \in {x \in Slots : EntrySlot(x)}, ip \in ips, cl \in cls, body \in bodies :
        /\ Route("POST", <<"contact">>) = "contact"
        /\ LET r == Enter(s, "contact", "POST", <<"contact">>, ip, cl, body)
           IN  reqs' = [reqs EXCEPT ![s] =
                    IF Oversized(cl) THEN Finish(r, JsonError("Payload too large", 413))
                    ELSE [r EXCEPT !.pc = "rl_get", !.now = clock]]
        /\ issued' = issued + 1
        /\ UNCHANGED <<clock, kv, submissions, clicks, downloads, sent, hist, okCount, ticks>>

\* index.ts:242-246: the KV read returns; the record is reset or kept, and counted up.
RateLimitGet(s) ==
    /\ reqs[s].pc = "rl_get"
    /\ \E out \in Outcomes :
        LET r == Logged(reqs[s], "kv.get", out)
            got == KVGet(kv[r.ip], clock)
        IN  /\ reqs' = [reqs EXCEPT ![s] =
                    IF out = "ok"
                    THEN [r EXCEPT !.pc = "rl_put", !.got = got, !.rec = NextRec(got, r.now),
                                   !.seen = kv[r.ip], !.readAt = clock]
                    ELSE Throw(r)]
            /\ hist' = IF out = "ok" THEN hist
                       ELSE [hist EXCEPT ![r.ip] = Checked(@, r, TRUE, FALSE, FALSE)]
    /\ UNCHANGED <<clock, kv, submissions, clicks, downloads, sent, okCount, issued, ticks>>

\* index.ts:248-252 and 104-106: the write-back, then the verdict of the check.
\* A request that has read the counter of the same IP and not yet written it
\* back has been raced by this write: what it read is no longer what is stored.
RateLimitPut(s) ==
    /\ reqs[s].pc = "rl_put"
    /\ \E out \in Outcomes :
        LET r == Logged(reqs[s], "kv.put", out)
            stored == [present |-> TRUE, count |-> r.rec.count, reset |-> r.rec.reset,
                       expiresAt |-> clock + 1000 * ExpirationTtl(r.rec, r.now)]
            q == [r EXCEPT !.raced = FALSE]
            after == IF out = "throw" THEN Throw(q)
                     ELSE IF WithinLimit(r.rec) THEN [q EXCEPT !.pc = "body"]
                     ELSE Finish(q, JsonError("Too many requests, please try again later.", 429))
        IN  /\ kv' = IF out = "ok" THEN [kv EXCEPT ![r.ip] = stored] ELSE kv
            /\ hist' = [hist EXCEPT ![r.ip] =
                    Checked(@, r, out = "throw", out = "ok" /\ r.raced,
                            out = "ok" /\ WithinLimit(r.rec))]
            /\ reqs' = [x \in Slots |->
                    IF x = s THEN after
                    ELSE IF out = "ok" /\ reqs[x].pc = "rl_put" /\ reqs[x].ip = r.ip
                         THEN [reqs[x] EXCEPT !.raced = TRUE]
                         ELSE reqs[x]]
    /\ UNCHANGED <<clock, submissions, clicks, downloads, sent, okCount, issued, ticks>>

\* index.ts:108-131: the body is read, parsed and validated.
ContactBody(s) ==
    /\ reqs[s].pc = "body"
    /\ LET r == reqs[s]
           err == BodyError(r.body)
       IN  reqs' = [reqs EXCEPT ![s] =
                IF err = "" THEN [r EXCEPT !.pc = "verify"] ELSE Finish(r, JsonError(err, 400))]
    /\ UNCHANGED <<clock, kv, submissions, clicks, downloads, sent, hist, okCount, issued, ticks>>

\* index.ts:133-144: the Turnstile call; "throw" is the fetch or verify.json() failing.
TurnstileVerify(s) ==
    /\ reqs[s].pc = "verify"
    /\ \E out \in {"success", "failure", "throw"} :
        LET r == Logged(reqs[s], "turnstile", out)
        IN  reqs' = [reqs EXCEPT ![s] =
                IF out = "throw" THEN Throw(r)
                ELSE IF out = "failure"
                     THEN Finish(r, JsonError("Turnstile verification failed", 400))
                ELSE [r EXCEPT !.pc = "insert"]]
    /\ UNCHANGED <<clock, kv, submissions, clicks, downloads, sent, hist, okCount, issued, ticks>>

\* index.ts:146-151: the insert into submissions.
InsertSubmission(s) ==
    /\ reqs[s].pc = "insert"
    /\ \E out \in Outcomes :
        LET r == Logged(reqs[s], "db.submissions", out)
        IN  /\ submissions' = IF out = "ok" THEN Append(submissions, SubmissionRow(r))
                              ELSE submissions
            /\ reqs' = [reqs EXCEPT ![s] =
                    IF out = "ok" THEN [r EXCEPT !.pc = "token"] ELSE Throw(r)]
    /\ UNCHANGED <<clock, kv, clicks, downloads, sent, hist, okCount, issued, ticks>>


\* SendGmail returning true after the send call whatever its status.
SendGmailNoStatus(tokenOut, sendOut) ==
    IF tokenOut = "throw" THEN "throw"
    ELSE IF tokenOut = "notok" THEN "false"
    ELSE IF sendOut = "throw" THEN "throw"
    ELSE "true"

\* index.ts:255-296: how sendGmail settles, from the outcome of the token exchange
\* and of the send call: "true", "false" or "throw".
SendGmail(tokenOut, sendOut) ==
    IF tokenOut = "throw" THEN "throw"
    ELSE IF tokenOut = "notok" THEN "false"
    ELSE IF sendOut = "throw" THEN "throw"
    ELSE IF sendOut = "ok" THEN "true"
    ELSE "false"

\* index.ts:154-162: (await sendGmail(...).catch(() => false)) || false
Delivered(settled) == IF settled = "throw" THEN FALSE ELSE settled = "true"

HttpOutcomes == {"ok", "notok", "throw"}

\* index.ts:260-272: the token exchange of sendGmail; "throw" is the fetch or
\* tokenRes.json() failing.  When it does not succeed the handler answers at once.
GmailToken(s) ==
    /\ reqs[s].pc = "token"
    /\ \E out \in HttpOutcomes :
        LET r == Logged(reqs[s], "gmail.token", out)
        IN  /\ reqs' = [reqs EXCEPT ![s] =
                    IF out = "ok" THEN [r EXCEPT !.pc = "send"]
                    ELSE Finish(r, JsonOk(Delivered(SendGmail(out, "none"))))]
            /\ okCount' = IF out = "ok" THEN okCount ELSE okCount + 1
    /\ UNCHANGED <<clock, kv, submissions, clicks, downloads, sent, hist, issued, ticks>>

\* index.ts:289-295 and 164-169: the send call, then the acknowledgement.
GmailSend(s) ==
    /\ reqs[s].pc = "send"
    /\ \E out \in HttpOutcomes :
        LET r == Logged(reqs[s], "gmail.send", out)
        IN  /\ reqs' = [reqs EXCEPT ![s] = Finish(r, JsonOk(Delivered(SendGmail("ok", out))))]
            /\ sent' = IF out = "ok" THEN sent + 1 ELSE sent
    /\ okCount' = okCount + 1
    /\ UNCHANGED <<clock, kv, submissions, clicks, downloads, hist, issued, ticks>>

(* ------------------------------ /go/:key ------------------------------- *)

\* KV: the shortlinks:<key> entries; a string value is <<v>>, null is << >>.
Shortlinks == [k \in {"abc"} |-> <<"https://example.com">>]
Lookup(key) == IF key \in DOMAIN Shortlinks THEN Shortlinks[key] ELSE << >>
Referrers == {"", "cv"}

\* index.ts:28 and 175: dispatch and the KV read of the mapping.
FetchShortlink(cap, budget) ==
    /\ CanEnter(cap, budget)
    /\ \E s \in {x \in Slots : EntrySlot(x)}, method \in Methods, path \in Paths,
          ip \in IPs, ref \in Referrers :
        /\ Route(method, path) = "shortlink"
        /\ reqs' = [reqs EXCEPT ![s] =
                [Enter(s, "shortlink", method, path, ip, Undefined, JsonNull)
                    EXCEPT !.pc = "sl_get", !.ref = ref]]
        /\ issued' = issued + 1
        /\ UNCHANGED <<clock, kv, submissions, clicks, downloads, sent, hist, okCount, ticks>>

\* index.ts:175-176: the mapping is read; a miss answers 404.
ShortlinkGet(s) ==
    /\ reqs[s].pc = "sl_get"
    /\ \E out \in Outcomes :
        LET r == Logged(reqs[s], "kv.get", out)
            target == Lookup(ShortKey(r.path))
        IN  reqs' = [reqs EXCEPT ![s] =
                IF out = "throw" THEN Throw(r)
                ELSE IF target = << >>
                     THEN Finish(r, Response(404, [t |-> "text", text |-> "Shortlink not found"]))
                ELSE [r EXCEPT !.pc = "sl_insert", !.target = target]]
    /\ UNCHANGED <<clock, kv, submissions, clicks, downloads, sent, hist, okCount, issued, ticks>>

\* ClickRow with key and target bound in each other's place.
ClickRowSwapped(r) ==
    [short_key |-> r.target[1], target_url |-> ShortKey(r.path), referrer |-> r.ref,
     ip |-> r.ip, user_agent |-> r.ua]

\* index.ts:185  .bind(key, target, ref, ip, ua)
ClickRow(r) ==
    [short_key |-> ShortKey(r.path), target_url |-> r.target[1], referrer |-> r.ref,
     ip |-> r.ip, user_agent |-> r.ua]

\* Response.redirect(target, 302)
Redirect(target) == [kind |-> "response", status |-> 302, location |-> target]

\* index.ts:182-188: the insert into clicks, then the redirect.
ShortlinkInsert(s) ==
    /\ reqs[s].pc = "sl_insert"
    /\ \E out \in Outcomes :
        LET r == Logged(reqs[s], "db.clicks", out)
        IN  /\ clicks' = IF out = "ok" THEN Append(clicks, ClickRow(r)) ELSE clicks
            /\ reqs' = [reqs EXCEPT ![s] =
                    IF out = "ok" THEN Finish(r, Redirect(r.target[1])) ELSE Throw(r)]
    /\ UNCHANGED <<clock, kv, submissions, downloads, sent, hist, okCount, issued, ticks>>

(* ------------------------- static files, resume ------------------------ *)

\* What env.ASSETS.fetch answers: status, body, Content-Type and Cache-Control.
Asset(status, body, ct, cache) ==
    [status |-> status, body |-> body, ct |-> ct, cache |-> cache]
Assets ==
    { Asset(200, "resume", "application/pdf", << >>),
      Asset(200, "page", "text/html; charset=utf-8", <<"max-age=60">>),
      Asset(404, "missing", "text/plain", <<"max-age=60">>),
      Asset(304, "", "", << >>) }

\* index.ts:76-86: the Cache-Control of the response, from its Content-Type.
CacheControl(res) ==
    IF res.ct \in {"text/html; charset=utf-8"} THEN <<"no-store">>
    ELSE IF res.ct \in {"application/javascript", "text/css", "image/png", "application/pdf"}
         THEN <<"public, max-age=604800, immutable">>
    ELSE res.cache

\* index.ts:51-89
withSecurityAndCacheHeaders(res) ==
    [kind |-> "response", status |-> res.status, body |-> res.body, ct |-> res.ct,
     security |-> TRUE, cache |-> CacheControl(res)]

\* index.ts:32 and 196-198: dispatch and the insert into downloads.
FetchResume(cap, budget) ==
    /\ CanEnter(cap, budget)
    /\ \E s \in {x \in Slots : EntrySlot(x)}, method \in Methods :
        /\ Route(method, <<"resume.pdf">>) = "resume"
        /\ reqs' = [reqs EXCEPT ![s] =
                [Enter(s, "resume", method, <<"resume.pdf">>, "", Undefined, JsonNull)
                    EXCEPT !.pc = "rs_insert"]]
        /\ issued' = issued + 1
        /\ UNCHANGED <<clock, kv, submissions, clicks, downloads, sent, hist, okCount, ticks>>

\* AfterDownloadInsert without the try block: a failed insert ends the handler.
AfterDownloadInsertUnguarded(out) == IF out = "throw" THEN "throw" ELSE "rs_asset"

\* After the insert into downloads settled with out, handleResume goes on to
\* the asset fetch: the catch clause of index.ts:199-201 swallows a failure.
AfterDownloadInsert(out) == "rs_asset"

\* index.ts:195-201: the insert settles.
ResumeInsert(s) ==
    /\ reqs[s].pc = "rs_insert"
    /\ \E out \in Outcomes :
        LET r == Logged(reqs[s], "db.downloads", out)
            next == AfterDownloadInsert(out)
        IN  /\ downloads' = IF out = "ok" THEN downloads + 1 ELSE downloads
            /\ reqs' = [reqs EXCEPT ![s] =
                    IF next = "throw" THEN Throw(r) ELSE [r EXCEPT !.pc = next]]
    /\ UNCHANGED <<clock, kv, submissions, clicks, sent, hist, okCount, issued, ticks>>

\* index.ts:203-204: the asset fetch settles.
ResumeAsset(s) ==
    /\ reqs[s].pc = "rs_asset"
    /\ \/ \E a \in Assets :
            reqs' = [reqs EXCEPT ![s] =
                Finish([Logged(reqs[s], "assets", "ok") EXCEPT !.asset = a],
                       withSecurityAndCacheHeaders(a))]
       \/ reqs' = [reqs EXCEPT ![s] = Throw(Logged(reqs[s], "assets", "throw"))]
    /\ UNCHANGED <<clock, kv, submissions, clicks, downloads, sent, hist, okCount, issued, ticks>>

\* index.ts:39-40: no route matched; the asset fetch is issued.
FetchStatic(cap, budget) ==
    /\ CanEnter(cap, budget)
    /\ \E s \in {x \in Slots : EntrySlot(x)}, method \in Methods, path \in Paths :
        /\ Route(method, path) = "static"
        /\ reqs' = [reqs EXCEPT ![s] =
                [Enter(s, "static", method, path, "", Undefined, JsonNull)
                    EXCEPT !.pc = "st_asset"]]
        /\ issued' = issued + 1
        /\ UNCHANGED <<clock, kv, submissions, clicks, downloads, sent, hist, okCount, ticks>>

\* index.ts:40-45: the awaited asset fetch settles, inside the try block.
StaticAsset(s) ==
    /\ reqs[s].pc = "st_asset"
    /\ \/ \E a \in Assets :
            reqs' = [reqs EXCEPT ![s] =
                Finish([Logged(reqs[s], "assets", "ok") EXCEPT !.asset = a],
                       withSecurityAndCacheHeaders(a))]
       \/ reqs' = [reqs EXCEPT ![s] = Throw(Logged(reqs[s], "assets", "throw"))]
    /\ UNCHANGED <<clock, kv, submissions, clicks, downloads, sent, hist, okCount, issued, ticks>>

(* -------------------------------- /badge ------------------------------- *)

\* KV open_to_work and env.OPEN_TO_WORK_DEFAULT: <<v>>, or << >> when unset.
Flags == {<< >>, <<"true">>, <<"false">>}

\* index.ts:210-211: (stored ?? configured ?? "true") === "true"
BadgeOpen(stored, configured) ==
    LET flag == IF stored # << >> THEN stored
                ELSE IF configured # << >> THEN configured ELSE <<"true">>
    IN  flag = <<"true">>

\* index.ts:219-224
BadgeResponse(open) ==
    [kind |-> "response", status |-> 200, body |-> [t |-> "svg", open |-> open],
     ct |-> "image/svg+xml", cache |-> <<"no-store">>]

\* index.ts:36 and 210: dispatch and the KV read of the flag.
FetchBadge(cap, budget) ==
    /\ CanEnter(cap, budget)
    /\ \E s \in {x \in Slots : EntrySlot(x)}, method \in Methods :
        /\ Route(method, <<"badge">>) = "badge"
        /\ reqs' = [reqs EXCEPT ![s] =
                [Enter(s, "badge", method, <<"badge">>, "", Undefined, JsonNull)
                    EXCEPT !.pc = "bg_get"]]
        /\ issued' = issued + 1
        /\ UNCHANGED <<clock, kv, submissions, clicks, downloads, sent, hist, okCount, ticks>>

\* index.ts:210-224: the flag read settles and the badge is rendered.
BadgeGet(s) ==
    /\ reqs[s].pc = "bg_get"
    /\ \/ \E stored \in Flags, configured \in Flags :
            reqs' = [reqs EXCEPT ![s] =
                Finish(Logged(reqs[s], "kv.get", "ok"), BadgeResponse(BadgeOpen(stored, configured)))]
       \/ reqs' = [reqs EXCEPT ![s] = Throw(Logged(reqs[s], "kv.get", "throw"))]
    /\ UNCHANGED <<clock, kv, submissions, clicks, downloads, sent, hist, okCount, issued, ticks>>

(* ------------------------------- delivery ------------------------------ *)

\* The runtime hands the settled result of fetch to the client and drops the request.
Deliver(s) ==
    /\ reqs[s].pc = "done"
    /\ reqs' = [reqs EXCEPT ![s] = Idle]
    /\ UNCHANGED <<clock, kv, submissions, clicks, downloads, sent, hist, okCount, issued, ticks>>

(* -------------------------------- clock -------------------------------- *)

\* Milliseconds the clock moves in one advance: inside a window, onto its last
\* instant (twice 300000), past it, and between the reset time and the expiry of
\* a key whose ttl was rounded up (1500 then 598700).
ClockSteps == {1500, 300000, 598700}

\* The clock is read by rateLimit only: an advance while a handler is past its
\* rate-limit check is the same as one after that handler has answered.
Tick(budget) ==
    /\ ticks < budget
    /\ \A s \in Slots : reqs[s].pc \in {"idle", "rl_get", "rl_put"}
    /\ \E d \in ClockSteps : clock' = clock + d
    /\ ticks' = ticks + 1
    /\ UNCHANGED <<kv, submissions, clicks, downloads, sent, reqs, hist, okCount, issued>>

(* ---------------------------- specifications --------------------------- *)

\* Every route and every input, one request at a time.
Next ==
    \/ FetchContact(1, MaxRequests, IPs, ContentLengths, Bodies)
    \/ FetchShortlink(1, MaxRequests)
    \/ FetchResume(1, MaxRequests)
    \/ FetchBadge(1, MaxRequests)
    \/ FetchStatic(1, MaxRequests)
    \/ \E s \in Slots :
        \/ RateLimitGet(s) \/ RateLimitPut(s) \/ ContactBody(s) \/ TurnstileVerify(s)
        \/ InsertSubmission(s) \/ GmailToken(s) \/ GmailSend(s)
        \/ ShortlinkGet(s) \/ ShortlinkInsert(s)
        \/ ResumeInsert(s) \/ ResumeAsset(s) \/ StaticAsset(s) \/ BadgeGet(s)
        \/ Deliver(s)

Spec == InitRoutes /\ [][Next]_vars


\* The rate-limit workloads issue contact requests only: no other route reads
\* or writes an rl:contact:<ip> key.
WindowIPs == {"203.0.113.1"}
WindowBodies == {GoodBody, InvalidJson}
RaceBodies == {InvalidJson}

ContactStep(s) ==
    \/ RateLimitGet(s) \/ RateLimitPut(s) \/ ContactBody(s) \/ TurnstileVerify(s)
    \/ InsertSubmission(s) \/ GmailToken(s) \/ GmailSend(s)
    \/ Deliver(s)

\* Contact requests one after another, with the clock advancing between and
\* during them.
NextWindow ==
    \/ FetchContact(1, MaxContact, WindowIPs, {Undefined}, WindowBodies)
    \/ Tick(MaxTicks)
    \/ \E s \in Slots : ContactStep(s)

SpecWindow == Init /\ [][NextWindow]_vars

\* Contact requests that overlap: up to MaxInflight handlers between entry and delivery.
NextRace ==
    \/ FetchContact(MaxInflight, MaxContact, WindowIPs, {Undefined}, RaceBodies)
    \/ Tick(MaxRaceTicks)
    \/ \E s \in Slots :
        \/ RateLimitGet(s) \/ RateLimitPut(s) \/ ContactBody(s) \/ Deliver(s)

SpecRace == Init /\ [][NextRace]_vars


(* ------------------------------ properties ----------------------------- *)

Done(r) == r.pc = "done"
Answered(r, status) == Done(r) /\ r.resp.kind = "response" /\ r.resp.status = status
Made(r, name, out) == \E i \in DOMAIN r.calls : r.calls[i] = Call(name, out)
Contact(r) == r.pc # "idle" /\ r.route = "contact"

\* The external calls whose failure no handler catches.
UncaughtCalls == {"kv.get", "kv.put", "turnstile", "db.submissions", "db.clicks", "assets"}
HandlerFailed(r) ==
    \E i \in DOMAIN r.calls : r.calls[i].call \in UncaughtCalls /\ r.calls[i].out = "throw"

\* C1: on every route, a request whose handler failed is answered 500 with the
\* body "Internal Error"; the failure does not leave fetch as a rejection.
C1_FailureAnswered500 ==
    \A s \in Slots : Done(reqs[s]) /\ HandlerFailed(reqs[s]) => reqs[s].resp = InternalError

\* The request of slot s completed its rate-limit check (read and write-back).
PassedCheck(r) == Contact(r) /\ Made(r, "kv.put", "ok")

\* The request entered and read its counter inside the window that the first
\* check of its IP opened, and no KV call of that IP has failed.
InFirstWindow(r) ==
    LET h == hist[r.ip]
    IN  ~h.fault /\ r.now < h.first + windowMs /\ r.readAt < h.first + windowMs

\* C2: of the contact requests one IP issues one after another inside one window,
\* starting from no stored counter, the first five pass the rate-limit check and
\* every later one is answered 429.
C2_FiveThen429 ==
    \A s \in Slots :
        LET r == reqs[s]
        IN  PassedCheck(r) /\ InFirstWindow(r) =>
                IF hist[r.ip].n <= 5 THEN ~Answered(r, 429) ELSE Answered(r, 429)

\* A sixth or later request of the window, with a valid body, answered 429.
C2_Witness ==
    \E s \in Slots :
        LET r == reqs[s]
        IN  /\ PassedCheck(r) /\ InFirstWindow(r)
            /\ hist[r.ip].n > 5 /\ r.body = GoodBody /\ Answered(r, 429)

\* The window of the record the request found stored has elapsed: the entry
\* time is past its reset timestamp, or the key had expired when it was read.
WindowElapsed(r) ==
    r.seen.present /\ (r.now > r.seen.reset \/ r.readAt >= r.seen.expiresAt)

\* C3: the first request after the window of its IP elapsed is admitted, and
\* stores count 1 and the reset timestamp now + 10 minutes.
C3_FreshWindow ==
    \A s \in Slots :
        LET r == reqs[s]
        IN  PassedCheck(r) /\ WindowElapsed(r) =>
                /\ ~Answered(r, 429)
                /\ kv[r.ip].present /\ kv[r.ip].count = 1
                /\ kv[r.ip].reset = r.now + 10 * 60 * 1000

\* A request admitted after a window in which requests were rejected.
C3_Witness ==
    \E s \in Slots :
        LET r == reqs[s]
        IN  PassedCheck(r) /\ WindowElapsed(r) /\ r.seen.count > 5 /\ ~Answered(r, 429)


LastRow(table) == table[Len(table)]

\* C4: an accepted contact request has added exactly one row to submissions,
\* holding its name, email, message, IP and user agent; once no request is
\* between its insert and its answer, there are as many rows as ok: true answers.
C4_OneRowPerAccepted ==
    /\ \A s \in Slots :
        LET r == reqs[s]
        IN  Contact(r) /\ Done(r) /\ IsOk(r.resp) =>
                /\ Len(submissions) = r.pre.submissions + 1
                /\ LastRow(submissions) =
                       [name |-> r.body.name, email |-> r.body.email,
                        message |-> r.body.message, ip |-> r.ip, user_agent |-> r.ua]
    /\ (\A s \in Slots : reqs[s].pc \notin {"token", "send"}) => Len(submissions) = okCount

\* A second accepted request, after its acknowledgement.
C4_Witness ==
    \E s \in Slots :
        /\ Contact(reqs[s]) /\ Done(reqs[s]) /\ IsOk(reqs[s].resp)
        /\ reqs[s].pre.submissions = 1 /\ okCount = 2

\* The defects of a contact request that the pipeline rejects.
TooLarge(r) == r.cl.t = "num" /\ r.cl.n > 65536
Unparsable(r) == r.body.t = "invalid"
MissingField(r) ==
    ~Unparsable(r) /\ \E f \in {"name", "email", "message", "turnstileToken"} :
        Field(r.body, f) = Undefined \/ Field(r.body, f) = Str(<< >>)
OverLong(r) ==
    /\ r.body.t = "object"
    /\ \/ StrLen(r.body.name) > 200
       \/ StrLen(r.body.email) > 320
       \/ StrLen(r.body.message) > 5000
BadEmail(r) == r.body.t = "object" /\ r.body.email.t = "string" /\ ~EmailOk(r.body.email)
BotCheckFailed(r) == Made(r, "turnstile", "failure")
Defective(r) ==
    \/ TooLarge(r) \/ Answered(r, 429) \/ Unparsable(r) \/ MissingField(r)
    \/ OverLong(r) \/ BadEmail(r) \/ BotCheckFailed(r)

Is4xx(r) == Done(r) /\ r.resp.kind = "response" /\ r.resp.status \in 400..499

\* Since the request entered, nothing but the counter of its own IP changed.
NoTrace(r) ==
    /\ Len(submissions) = r.pre.submissions /\ sent = r.pre.sent
    /\ Len(clicks) = r.pre.clicks /\ downloads = r.pre.downloads
    /\ \A i \in IPs \ {r.ip} : kv[i] = r.pre.kv[i]
    /\ \A i \in DOMAIN r.calls :
         r.calls[i].call \notin {"db.submissions", "gmail.token", "gmail.send"}

\* C5: a contact request with one of the listed defects is answered 4xx (unless
\* a call of its handler failed), and a request answered 4xx has stored no row
\* and sent no email: only the counter of its IP may have changed.
C5_RejectedLeavesNoTrace ==
    \A s \in Slots :
        LET r == reqs[s]
        IN  Contact(r) /\ Done(r) =>
                /\ Defective(r) /\ ~HandlerFailed(r) => Is4xx(r)
                /\ Defective(r) \/ Is4xx(r) => NoTrace(r)

\* A request rejected at the last check, after it used up one unit of quota.
C5_Witness ==
    \E s \in Slots :
        LET r == reqs[s]
        IN  /\ Contact(r) /\ Answered(r, 400) /\ BotCheckFailed(r)
            /\ kv[r.ip] # r.pre.kv[r.ip]

\* C6: once the row of a contact request is stored, the answer is 200 with
\* ok: true whatever the notification step does, the row stays, and delivered
\* is true exactly when the send call returned success.
C6_NotificationNeverFails ==
    \A s \in Slots :
        LET r == reqs[s]
        IN  Contact(r) /\ Done(r) /\ Made(r, "db.submissions", "ok") =>
                /\ Answered(r, 200) /\ IsOk(r.resp)
                /\ r.resp.body.delivered = Made(r, "gmail.send", "ok")
                /\ Len(submissions) = r.pre.submissions + 1

\* A stored submission whose send call threw or was refused.
C6_Witness ==
    \E s \in Slots :
        LET r == reqs[s]
        IN  /\ Contact(r) /\ Done(r) /\ Made(r, "db.submissions", "ok")
            /\ Made(r, "gmail.send", "notok") /\ IsOk(r.resp) /\ ~r.resp.body.delivered

Resume(r) == r.pc # "idle" /\ r.route = "resume"

\* C7: GET /resume.pdf fetches the asset after the insert into downloads
\* whether or not the insert failed, and answers with the status and body of
\* the asset, with the security headers added.
C7_ResumeAlwaysServed ==
    \A s \in Slots :
        LET r == reqs[s]
        IN  Resume(r) /\ Done(r) =>
                /\ Len(r.calls) = 2
                /\ r.calls[1].call = "db.downloads" /\ r.calls[2].call = "assets"
                /\ r.calls[2].out = "ok" =>
                     /\ r.resp.kind = "response" /\ r.resp.security
                     /\ r.resp.status = r.asset.status /\ r.resp.body = r.asset.body

\* The file served although the insert failed.
C7_Witness ==
    \E s \in Slots :
        LET r == reqs[s]
        IN  /\ Resume(r) /\ Made(r, "db.downloads", "throw")
            /\ Answered(r, 200) /\ r.resp.body = "resume" /\ downloads = r.pre.downloads

Shortlink(r) == r.pc # "idle" /\ r.route = "shortlink"
Mapped(r) == Lookup(r.path[2]) # << >>

\* C8: GET /go/:key answers 302 to the mapped target after inserting one
\* clicks row with that key and target, repeats included; an unmapped key is
\* answered 404 and inserts nothing.
C8_ShortlinkLogsThenRedirects ==
    \A s \in Slots :
        LET r == reqs[s]
        IN  Shortlink(r) /\ Done(r) =>
                /\ Answered(r, 302) =>
                     /\ Mapped(r) /\ r.resp.location = Lookup(r.path[2])[1]
                     /\ r.calls = << Call("kv.get", "ok"), Call("db.clicks", "ok") >>
                     /\ Len(clicks) = r.pre.clicks + 1
                     /\ LastRow(clicks).short_key = r.path[2]
                     /\ LastRow(clicks).target_url = Lookup(r.path[2])[1]
                /\ Mapped(r) /\ ~HandlerFailed(r) => Answered(r, 302)
                /\ ~Mapped(r) /\ ~HandlerFailed(r) => Answered(r, 404)
                /\ Answered(r, 404) =>
                     /\ ~Mapped(r) /\ Len(clicks) = r.pre.clicks
                     /\ ~Made(r, "db.clicks", "ok")

\* A repeated redirect: its row is the second of the table.
C8_Witness ==
    \E s \in Slots :
        Shortlink(reqs[s]) /\ Answered(reqs[s], 302) /\ reqs[s].pre.clicks = 1 /\ Len(clicks) = 2


\* The quota of the IP was used up when the request entered.
QuotaSpent(r) ==
    LET p == r.pre.kv[r.ip]
    IN  p.present /\ clock < p.expiresAt /\ clock <= p.reset /\ p.count >= 5

\* The answer the claimed order of the checks gives: that of the earliest
\* defect, NoResp when the request has none.
FirstDefect(r) ==
    IF TooLarge(r) THEN JsonError("Payload too large", 413)
    ELSE IF QuotaSpent(r) THEN JsonError("Too many requests, please try again later.", 429)
    ELSE IF Unparsable(r) THEN JsonError("Invalid JSON body", 400)
    ELSE IF MissingField(r) THEN JsonError("Missing required fields", 400)
    ELSE IF OverLong(r) THEN JsonError("Input too long", 400)
    ELSE IF BadEmail(r) THEN JsonError("Invalid email", 400)
    ELSE IF BotCheckFailed(r) THEN JsonError("Turnstile verification failed", 400)
    ELSE NoResp

\* C9: the contact pipeline checks size, quota, JSON, presence, lengths, email
\* and bot verification in that order and the earliest defect decides the
\* answer; a 413 leaves the counter alone, every request that completes the
\* rate-limit check has counted one up, and Turnstile is called only when the
\* six earlier checks passed.
C9_ChecksInOrder ==
    \A s \in Slots :
        LET r == reqs[s]
            before == r.pre.kv[r.ip]
        IN  Contact(r) =>
                /\ Done(r) /\ ~HandlerFailed(r) =>
                     IF FirstDefect(r) = NoResp THEN IsOk(r.resp)
                     ELSE r.resp = FirstDefect(r)
                /\ Answered(r, 413) => kv = r.pre.kv /\ r.calls = << >>
                /\ PassedCheck(r) =>
                     kv[r.ip].count = (IF before.present THEN before.count ELSE 0) + 1
                /\ (\E i \in DOMAIN r.calls : r.calls[i].call = "turnstile") =>
                     /\ ~TooLarge(r) /\ ~QuotaSpent(r) /\ ~Unparsable(r)
                     /\ ~MissingField(r) /\ ~OverLong(r) /\ ~BadEmail(r)

\* A request with three defects, answered for the earliest.
C9_Witness ==
    \E s \in Slots :
        LET r == reqs[s]
        IN  Contact(r) /\ TooLarge(r) /\ QuotaSpent(r) /\ Unparsable(r) /\ Answered(r, 413)

\* C10 as stated: overlapping requests of one IP can be admitted beyond the
\* ceiling of 5, but only by a small margin: at most one more for each request
\* that can overlap another.
C10_SmallMargin ==
    \A i \in IPs : hist[i].admitted <= 5 + (MaxInflight - 1)

\* C10, amended: more than 5 requests of one IP are admitted inside one window
\* only when a request wrote its counter back after another request of that IP
\* had written the counter since the first one read it.
C10_OverAdmissionByStaleWrite ==
    \A i \in IPs : hist[i].admitted > 5 => hist[i].stale

\* Seven requests of one IP admitted inside one window.
C10_Witness ==
    \E i \in IPs : hist[i].admitted >= 7 /\ hist[i].stale /\ ~hist[i].fault

\* The record rec is stored and its window is open at time t.
WindowOpen(rec, t) == rec.present /\ t < rec.expiresAt /\ t <= rec.reset

\* This step is the successful write-back of the request of slot s.
PutBy(s) ==
    /\ reqs[s].pc = "rl_put" /\ reqs'[s].pc # "rl_put"
    /\ Made(reqs'[s], "kv.put", "ok")

\* The request found the record of an open window when it read the counter.
ReadInOpenWindow(r) == r.got.present /\ r.now <= r.got.reset

\* C11 as stated: while the window of an IP is open, no write-back of a contact
\* request of that IP changes the stored reset timestamp.
C11_ResetNeverChanged ==
    [][\A s \in Slots :
          LET i == reqs[s].ip
          IN  PutBy(s) /\ WindowOpen(kv[i], clock) => kv'[i].reset = kv[i].reset]_vars

\* C11, amended: a contact request that found the record of an open window
\* when it read the counter writes back the reset timestamp it read and the
\* count it read plus one, whether it is admitted or answered 429; when no
\* other request of that IP wrote the counter in between, its write-back
\* leaves the stored reset timestamp as it was and raises the stored count by one.
C11_KeepsResetItRead ==
    [][\A s \in Slots :
          LET r == reqs[s]
              i == r.ip
          IN  PutBy(s) /\ ReadInOpenWindow(r) =>
                  /\ kv'[i].present
                  /\ kv'[i].reset = r.got.reset
                  /\ kv'[i].count = r.got.count + 1
                  /\ ~r.raced => /\ kv'[i].reset = kv[i].reset
                                 /\ kv'[i].count = kv[i].count + 1]_vars

\* A request that arrived while its IP was blocked: it was answered 429, and
\* the record it left stored has the count it read plus one and the reset
\* timestamp it read.
C11_Witness ==
    \E s \in Slots :
        LET r == reqs[s]
        IN  /\ PassedCheck(r) /\ ReadInOpenWindow(r) /\ Answered(r, 429)
            /\ r.got.count > 5
            /\ kv[r.ip].reset = r.got.reset /\ kv[r.ip].count = r.got.count + 1

====
